---- MODULE Spec2Model ----
(***************************************************************************)
(* cyber_poster.py as a state machine: the module-level start-up code, the *)
(* fetch / filter / select / publish / record cycle of main(), and the     *)
(* __main__ block that runs it once or in a sleep loop.                    *)
(*                                                                         *)
(* Python strings are sequences of one-character strings, so that split()  *)
(* and strip() are computed and not assumed.  An optional value (None or a *)
(* string) is a sequence of length 0 or 1: <<>> is None, <<s>> is s.       *)
(***************************************************************************)
EXTENDS Naturals, Sequences, FiniteSets

VARIABLES
    web,          \* the feeds as the network serves them: endpoint -> entries
    file,         \* POSTED_FILE on disk: [exists, lines]
    BOT_TOKEN,    \* module globals of the running process
    CHAT_ID,
    RSS_FEEDS,
    runMode,
    posted_urls,
    pc,           \* where the process is
    feedIdx,      \* fetch_news: position of the for loop over RSS_FEEDS
    new_items,    \* fetch_news: the list being built, then main's news_items
    item,         \* main: the selected item, <<>> before the selection
    fetched,      \* the "Fetched n items from <feed>" log lines of this cycle
    cycles,       \* history: calls of main() in this process (saturating)
    sendCount,    \* history: calls of send_telegram_message in this cycle
    published,    \* history: url -> successful sends
    posted0,      \* history: posted_urls when this cycle began
    file0,        \* history: the file when this cycle began
    loaded,       \* history: posted_urls as loaded at start-up
    prevFailed,   \* history: url whose publish failed in the last cycle that published
    prevPosted,   \* history: url published by the previous cycle, feed unchanged since
    feedChanged,  \* history: the feeds changed since the last fetch
    raised        \* history: feedparser.parse raised in this process

config   == <<BOT_TOKEN, CHAT_ID, RSS_FEEDS>>
locals   == <<feedIdx, new_items, item, fetched>>
snapshot == <<cycles, posted0, file0>>

vars == <<web, file, config, runMode, posted_urls, pc, locals, snapshot,
          sendCount, published, loaded, prevFailed, prevPosted, feedChanged,
          raised>>

----------------------------------------------------------------------------
(* Bounds of the model *)

MaxEntries == 2     \* entries served by all feeds together
CycleCap == 2       \* the cycle counter saturates here
PubCap == 2         \* the per-url counter of successful sends saturates here

(* Program constants *)

SummaryCap == 400   \* summary[:400]

----------------------------------------------------------------------------
(* Python helpers *)

None == <<>>
Some(s) == <<s>>

Min(a, b) == IF a <= b THEN a ELSE b

\* bool(x) of None or a string
Truthy(o) == o # None /\ o[1] # <<>>

\* os.getenv(name): the variable's value, None when unset
GetEnv(e) == e

\* os.getenv(name, default)
GetEnvDefault(e, default) == IF e = None THEN default ELSE e[1]

\* s[:n]
Slice(s, n) == SubSeq(s, 1, Min(Len(s), n))

\* s.split(sep): always at least one piece, "" gives [""]
RECURSIVE Split(_, _)
Split(s, sep) ==
    IF \E i \in 1..Len(s) : s[i] = sep
    THEN LET i == CHOOSE k \in 1..Len(s) :
                      s[k] = sep /\ \A j \in 1..(k - 1) : s[j] # sep
         IN  <<SubSeq(s, 1, i - 1)>> \o Split(SubSeq(s, i + 1, Len(s)), sep)
    ELSE <<s>>

IsSpace(c) == c \in {" ", "\n", "\t"}

\* s.strip()
RECURSIVE LStrip(_)
LStrip(s) == IF s # <<>> /\ IsSpace(Head(s)) THEN LStrip(Tail(s)) ELSE s

RECURSIVE RStrip(_)
RStrip(s) ==
    IF s # <<>> /\ IsSpace(s[Len(s)]) THEN RStrip(SubSeq(s, 1, Len(s) - 1)) ELSE s

Strip(s) == RStrip(LStrip(s))

\* dict.get(key, default) on an optional field
GetOr(field, default) == IF field = None THEN default ELSE field[1]

----------------------------------------------------------------------------
(* The environment: what the feeds can serve, what the variables can hold *)

UrlA == <<"a">>
UrlB == <<"b">>
AllUrls == {UrlA, UrlB}

NoTitle == <<"N", "o", " ", "t", "i", "t", "l", "e">>

\* parsed.entries: link, title and summary are each optional
EntryPool ==
    { [link |-> Some(UrlA), title |-> Some(<<"A">>), summary |-> Some(<<"s", "a">>)],
      [link |-> Some(UrlB), title |-> None,          summary |-> None],
      [link |-> None,       title |-> Some(<<"C">>), summary |-> Some(<<"s", "c">>)],
      [link |-> Some(<<>>), title |-> Some(<<"D">>), summary |-> None] }

FeedF == <<"f">>
FeedG == <<"g">>
Endpoints == {FeedF, FeedG}

RECURSIVE SeqsUpTo(_, _)
SeqsUpTo(S, n) ==
    IF n = 0 THEN {<<>>}
    ELSE LET shorter == SeqsUpTo(S, n - 1)
         IN  shorter \cup {Append(s, x) : s \in shorter, x \in S}

Webs == { w \in [Endpoints -> SeqsUpTo(EntryPool, MaxEntries)] :
            Len(w[FeedF]) + Len(w[FeedG]) <= MaxEntries }

\* values of the environment variables
EnvSecrets == {None, Some(<<>>), Some(<<"x">>)}
EnvFeeds ==
    { None,
      Some(<<>>),
      Some(<<"f">>),
      Some(<<"f", ",", "g">>),
      Some(<<"g", ",", " ", "f">>),
      Some(<<" ", ",", "g">>) }
EnvModes == {None, Some("local"), Some("github")}

\* the file before the first start: absent, or lines left by earlier use
InitialFiles ==
    { [exists |-> FALSE, lines |-> <<>>],
      [exists |-> TRUE,  lines |-> <<>>],
      [exists |-> TRUE,  lines |-> <<UrlA>>],
      [exists |-> TRUE,  lines |-> <<<<" ">>, <<"b", " ">>>>] }

\* feedparser.parse(feed_url).entries
FeedParse(feed_url) == IF feed_url \in DOMAIN web THEN web[feed_url] ELSE <<>>

----------------------------------------------------------------------------
(* The program *)

\* line 26: all([BOT_TOKEN, CHAT_ID, RSS_FEEDS]); a list is true when non-empty
ConfigOK(token, chat, feeds) == Truthy(token) /\ Truthy(chat) /\ Len(feeds) > 0

\* line 35: set(line.strip() for line in f if line.strip())
LoadLines(lines) ==
    { Strip(lines[i]) : i \in { j \in 1..Len(lines) : Strip(lines[j]) # <<>> } }

\* lines 55-57: the dict appended for a surviving entry
MakeItem(entry) ==
    [ title   |-> GetOr(entry.title, NoTitle),
      url     |-> entry.link[1],
      summary |-> Slice(GetOr(entry.summary, <<>>), SummaryCap) ]

\* the filter without the check against the Posted-URL Set
Skipped_NoDedupe(entry, posted) == ~Truthy(entry.link)

\* line 53: if not url or url in posted_urls: continue
Skipped(entry, posted) == ~Truthy(entry.link) \/ entry.link[1] \in posted

\* lines 51-57: the inner loop over parsed.entries
RECURSIVE FilterEntries(_, _)
FilterEntries(entries, posted) ==
    IF entries = <<>> THEN <<>>
    ELSE LET rest == FilterEntries(Tail(entries), posted)
         IN  IF Skipped(Head(entries), posted)
             THEN rest
             ELSE <<MakeItem(Head(entries))>> \o rest

\* line 76: f.write(url + "\n") on a file opened for append
AppendLine(f, url) == [exists |-> TRUE, lines |-> Append(f.lines, url)]

Done == {"done_posted", "done_nothing", "done_send_error", "done_save_error"}

Init ==
    /\ web \in Webs
    /\ file \in InitialFiles
    /\ BOT_TOKEN = None
    /\ CHAT_ID = None
    /\ RSS_FEEDS = <<>>
    /\ runMode = "unset"
    /\ posted_urls = {}
    /\ pc = "config"
    /\ feedIdx = 0
    /\ new_items = <<>>
    /\ item = None
    /\ fetched = <<>>
    /\ cycles = 0
    /\ sendCount = 0
    /\ published = [u \in AllUrls |-> 0]
    /\ posted0 = {}
    /\ file0 = file
    /\ loaded = {}
    /\ prevFailed = None
    /\ prevPosted = None
    /\ feedChanged = FALSE
    /\ raised = FALSE

\* lines 19-27: read the environment, raise when a value is missing
ReadConfig ==
    /\ pc = "config"
    /\ \E token \in EnvSecrets, chat \in EnvSecrets, feeds \in EnvFeeds :
          /\ BOT_TOKEN' = GetEnv(token)
          /\ CHAT_ID' = GetEnv(chat)
          /\ RSS_FEEDS' = Split(GetEnvDefault(feeds, <<>>), ",")
    /\ pc' = IF ConfigOK(BOT_TOKEN', CHAT_ID', RSS_FEEDS')
             THEN "load" ELSE "config_error"
    /\ UNCHANGED <<web, file, runMode, posted_urls, locals, snapshot, sendCount,
                   published, loaded, prevFailed, prevPosted, feedChanged,
                   raised>>

\* lines 30-35: create the file when absent, load it into posted_urls
LoadPosted ==
    /\ pc = "load"
    /\ file' = IF file.exists THEN file ELSE [exists |-> TRUE, lines |-> <<>>]
    /\ posted_urls' = LoadLines(file'.lines)
    /\ loaded' = posted_urls'
    /\ pc' = "entry"
    /\ UNCHANGED <<web, config, runMode, locals, snapshot, sendCount, published,
                   prevFailed, prevPosted, feedChanged, raised>>

\* lines 96-100: the __main__ block reads RUN_MODE
EnterMain ==
    /\ pc = "entry"
    /\ \E mode \in EnvModes : runMode' = GetEnvDefault(mode, "local")
    /\ pc' = "main"
    /\ UNCHANGED <<web, file, config, posted_urls, locals, snapshot, sendCount,
                   published, loaded, prevFailed, prevPosted, feedChanged,
                   raised>>

\* lines 78-80, 44: main() is called and calls fetch_news()
BeginCycle ==
    /\ pc = "main"
    /\ pc' = "fetching"
    /\ new_items' = <<>>
    /\ feedIdx' = 1
    /\ item' = None
    /\ fetched' = <<>>
    /\ cycles' = Min(cycles + 1, CycleCap)
    /\ sendCount' = 0
    /\ posted0' = posted_urls
    /\ file0' = file
    /\ feedChanged' = FALSE
    /\ UNCHANGED <<web, file, config, runMode, posted_urls, published, loaded,
                   prevFailed, prevPosted, raised>>

\* lines 45-57: one pass of the loop over RSS_FEEDS, the feed parsed
FetchFeed ==
    /\ pc = "fetching"
    /\ feedIdx <= Len(RSS_FEEDS)
    /\ LET feed_url == Strip(RSS_FEEDS[feedIdx])
       IN  IF feed_url = <<>>
           THEN UNCHANGED <<new_items, fetched>>
           ELSE /\ fetched' = Append(fetched, <<feed_url, Len(FeedParse(feed_url))>>)
                /\ new_items' =
                       new_items \o FilterEntries(FeedParse(feed_url), posted_urls)
    /\ feedIdx' = feedIdx + 1
    /\ UNCHANGED <<web, file, config, runMode, posted_urls, pc, item, snapshot,
                   sendCount, published, loaded, prevFailed, prevPosted,
                   feedChanged, raised>>

\* the while loop catching the retrieval error and going on to the next cycle
FetchFeedRaise_Caught ==
    /\ pc = "fetching"
    /\ feedIdx <= Len(RSS_FEEDS)
    /\ Strip(RSS_FEEDS[feedIdx]) # <<>>
    /\ raised' = TRUE
    /\ pc' = IF runMode = "local" THEN "main" ELSE "crashed"
    /\ UNCHANGED <<web, file, config, runMode, posted_urls, locals, snapshot,
                   sendCount, published, loaded, prevFailed, prevPosted,
                   feedChanged>>

\* line 49: feedparser.parse raises; nothing in fetch_news, main or the
\* while loop catches it, so the interpreter exits with the traceback
FetchFeedRaise ==
    /\ pc = "fetching"
    /\ feedIdx <= Len(RSS_FEEDS)
    /\ Strip(RSS_FEEDS[feedIdx]) # <<>>
    /\ raised' = TRUE
    /\ pc' = "crashed"
    /\ UNCHANGED <<web, file, config, runMode, posted_urls, locals, snapshot,
                   sendCount, published, loaded, prevFailed, prevPosted,
                   feedChanged>>

\* lines 58, 80-87: fetch_news returns; main returns on an empty list, else
\* random.choice picks one
SelectItem ==
    /\ pc = "fetching"
    /\ feedIdx > Len(RSS_FEEDS)
    /\ IF new_items = <<>>
       THEN /\ pc' = "done_nothing"
            /\ item' = None
       ELSE /\ pc' = "publishing"
            /\ \E i \in 1..Len(new_items) : item' = Some(new_items[i])
    /\ UNCHANGED <<web, file, config, runMode, posted_urls, feedIdx, new_items,
                   fetched, snapshot, sendCount, published, loaded, prevFailed,
                   prevPosted, feedChanged, raised>>

\* lines 60-70, 90: send_telegram_message returns
SendOK ==
    /\ pc = "publishing"
    /\ sendCount' = sendCount + 1
    /\ published' = [published EXCEPT ![item[1].url] = Min(@ + 1, PubCap)]
    /\ prevFailed' = None
    /\ pc' = "recording"
    /\ UNCHANGED <<web, file, config, runMode, posted_urls, locals, snapshot,
                   loaded, prevPosted, feedChanged, raised>>

\* the except clause recording the url of the failed publish all the same
SendFail_Recording ==
    /\ pc = "publishing"
    /\ sendCount' = sendCount + 1
    /\ prevFailed' = Some(item[1].url)
    /\ posted_urls' = posted_urls \cup {item[1].url}
    /\ pc' = "done_send_error"
    /\ UNCHANGED <<web, file, config, runMode, locals, snapshot, published,
                   loaded, prevPosted, feedChanged, raised>>

\* the except clause sending the same item once more
SendFail_Retry ==
    /\ pc = "publishing"
    /\ sendCount' = sendCount + 1
    /\ prevFailed' = Some(item[1].url)
    /\ pc' = IF sendCount = 0 THEN "publishing" ELSE "done_send_error"
    /\ UNCHANGED <<web, file, config, runMode, posted_urls, locals, snapshot,
                   published, loaded, prevPosted, feedChanged, raised>>

\* lines 63-69, 93-94: requests.post or raise_for_status raises; main logs it
SendFail ==
    /\ pc = "publishing"
    /\ sendCount' = sendCount + 1
    /\ prevFailed' = Some(item[1].url)
    /\ pc' = "done_send_error"
    /\ UNCHANGED <<web, file, config, runMode, posted_urls, locals, snapshot,
                   published, loaded, prevPosted, feedChanged, raised>>

\* save_posted appending the line without adding to the set in memory
SavePosted_FileOnly ==
    /\ pc = "recording"
    /\ file' = AppendLine(file, item[1].url)
    /\ pc' = "done_posted"
    /\ UNCHANGED <<web, config, runMode, posted_urls, locals, snapshot,
                   sendCount, published, loaded, prevFailed, prevPosted,
                   feedChanged, raised>>

\* lines 72-76, 91-92: save_posted adds to the set and appends the line
SavePosted ==
    /\ pc = "recording"
    /\ posted_urls' = posted_urls \cup {item[1].url}
    /\ file' = AppendLine(file, item[1].url)
    /\ pc' = "done_posted"
    /\ UNCHANGED <<web, config, runMode, locals, snapshot, sendCount, published,
                   loaded, prevFailed, prevPosted, feedChanged, raised>>

\* save_posted opening the file before it adds to the set: a failed append
\* leaves the set as it was
SavePostedRaise_NoAdd ==
    /\ pc = "recording"
    /\ pc' = "done_save_error"
    /\ UNCHANGED <<web, file, config, runMode, posted_urls, locals, snapshot,
                   sendCount, published, loaded, prevFailed, prevPosted,
                   feedChanged, raised>>

\* lines 74-76, 93-94: the set is updated, then open() raises (an OSError: the
\* file is read-only, the disk is full); the except clause of main logs it
SavePostedRaise ==
    /\ pc = "recording"
    /\ posted_urls' = posted_urls \cup {item[1].url}
    /\ pc' = "done_save_error"
    /\ UNCHANGED <<web, file, config, runMode, locals, snapshot, sendCount,
                   published, loaded, prevFailed, prevPosted, feedChanged,
                   raised>>

\* the loop ending after a cycle that logged a failure
Sleep_UnlessError ==
    /\ pc \in Done
    /\ runMode = "local"
    /\ pc' = IF pc \in {"done_send_error", "done_save_error"} THEN "exited" ELSE "main"
    /\ prevPosted' = IF pc \in {"done_posted", "done_save_error"} /\ ~feedChanged
                     THEN Some(item[1].url) ELSE None
    /\ UNCHANGED <<web, file, config, runMode, posted_urls, locals, snapshot,
                   sendCount, published, loaded, prevFailed, feedChanged,
                   raised>>

\* lines 100-104: local mode, main() returned: sleep, then call main() again
Sleep ==
    /\ pc \in Done
    /\ runMode = "local"
    /\ pc' = "main"
    /\ prevPosted' = IF pc \in {"done_posted", "done_save_error"} /\ ~feedChanged
                     THEN Some(item[1].url) ELSE None
    /\ UNCHANGED <<web, file, config, runMode, posted_urls, locals, snapshot,
                   sendCount, published, loaded, prevFailed, feedChanged,
                   raised>>

\* lines 105-107: any other mode, main() returned: the script ends
Exit ==
    /\ pc \in Done
    /\ runMode # "local"
    /\ pc' = "exited"
    /\ UNCHANGED <<web, file, config, runMode, posted_urls, locals, snapshot,
                   sendCount, published, loaded, prevFailed, prevPosted,
                   feedChanged, raised>>

\* an entry appended to feed f of the web w
Publish(w, f, e) == [w EXCEPT ![f] = Append(@, e)]

\* the oldest entry of feed f drops off
Expire(w, f) == [w EXCEPT ![f] = Tail(@)]

\* the feeds serve something else by the next cycle: a site publishes an
\* entry, or its oldest entry drops off the feed
ChangeFeed ==
    /\ pc \in Done
    /\ runMode = "local"
    /\ \E f \in Endpoints :
          \/ /\ Len(web[FeedF]) + Len(web[FeedG]) < MaxEntries
             /\ \E e \in EntryPool : web' = Publish(web, f, e)
          \/ /\ web[f] # <<>>
             /\ web' = Expire(web, f)
    /\ feedChanged' = TRUE
    /\ UNCHANGED <<file, config, runMode, posted_urls, pc, locals, snapshot,
                   sendCount, published, loaded, prevFailed, prevPosted, raised>>

Next ==
    \/ ReadConfig
    \/ LoadPosted
    \/ EnterMain
    \/ BeginCycle
    \/ FetchFeed
    \/ FetchFeedRaise
    \/ SelectItem
    \/ SendOK
    \/ SendFail
    \/ SavePosted
    \/ SavePostedRaise
    \/ Sleep
    \/ Exit
    \/ ChangeFeed

Spec == Init /\ [][Next]_vars

\* the run the convergence claim is about: the feeds keep their content and
\* are always retrieved
LiveNext ==
    \/ ReadConfig
    \/ LoadPosted
    \/ EnterMain
    \/ BeginCycle
    \/ FetchFeed
    \/ SelectItem
    \/ SendOK
    \/ SendFail
    \/ SavePosted
    \/ SavePostedRaise
    \/ Sleep
    \/ Exit

\* the process keeps running (a single thread, every call returns), and a
\* publish that is attempted again and again succeeds again and again
LiveSpec == Init /\ [][LiveNext]_vars /\ WF_vars(LiveNext) /\ SF_vars(SendOK)

----------------------------------------------------------------------------
(* What the properties speak of *)

\* how many lines of the file hold exactly url
CountLines(lines, url) == Cardinality({ i \in 1..Len(lines) : lines[i] = url })

\* the entries the configured feeds serve now, feed by feed, entry by entry
RECURSIVE ServedFrom(_)
ServedFrom(k) ==
    IF k > Len(RSS_FEEDS) THEN <<>>
    ELSE FeedParse(Strip(RSS_FEEDS[k])) \o ServedFrom(k + 1)

Served == ServedFrom(1)

\* the urls the configured feeds list now
Listed == { Served[k].link[1] : k \in { j \in 1..Len(Served) : Truthy(Served[j].link) } }

\* positions of Served whose entry has a url that is not in the set
Fresh(posted) ==
    { k \in 1..Len(Served) :
        /\ Served[k].link # None
        /\ Served[k].link[1] # <<>>
        /\ \A u \in posted : u # Served[k].link[1] }

\* the n-th smallest member of a set of positions
Nth(S, n) == CHOOSE k \in S : Cardinality({ m \in S : m <= k }) = n

Urls(items) == { items[i].url : i \in 1..Len(items) }

\* fetch_news has returned and the feeds still serve what it read
Filtered == pc \in {"publishing", "recording"} \/ (pc \in Done /\ ~feedChanged)

----------------------------------------------------------------------------
(* C1 *)

\* C1: whenever a cycle has ended, every url that send_telegram_message
\* accepted is on exactly one line of the Posted-URL file, also when the
\* append inside save_posted failed.
C1_PublishedOnceInFile ==
    pc \in Done =>
        \A u \in AllUrls : published[u] > 0 => CountLines(file.lines, u) = 1

----------------------------------------------------------------------------
(* C2 *)

\* C2: a cycle whose publish failed ends with the set and the file as they
\* were when it began and with one call of the publisher; and as long as no
\* publish has succeeded since, every later filter output holds the failed
\* url whenever the feeds still list it.
C2_PublishFailureLeavesStore ==
    /\ pc = "done_send_error" =>
          /\ posted_urls = posted0
          /\ file = file0
          /\ sendCount = 1
          /\ item[1].url \notin posted_urls
          /\ CountLines(file.lines, item[1].url) = 0
    /\ (pc \in {"publishing", "done_nothing"} /\ prevFailed # None
            /\ prevFailed[1] \in Listed /\ ~feedChanged)
          => prevFailed[1] \in Urls(new_items)

\* a later cycle has filtered, after a failed publish of a url still listed
C2_Witness ==
    /\ pc = "publishing"
    /\ prevFailed # None
    /\ prevFailed[1] \in Listed
    /\ cycles >= 2

----------------------------------------------------------------------------
(* C3 *)

\* C3: a cycle calls the publisher at most once, and a cycle that ended
\* called it zero times exactly when its filter output was empty; a cycle
\* aborted in the fetch called it zero times.
C3_AtMostOnePublish ==
    /\ sendCount <= 1
    /\ pc \in Done => (sendCount = 0 <=> new_items = <<>>)
    /\ pc \in {"fetching", "publishing", "crashed"} => sendCount = 0

\* a cycle with two new items has ended after one call
C3_Witness == pc \in Done /\ Len(new_items) >= 2 /\ sendCount = 1

----------------------------------------------------------------------------
(* C4 *)

\* C4 as stated: in the cycle that follows a successful publish, the feeds
\* unchanged, the publisher is not called.
C4_SecondRunPublishesNothing ==
    (prevPosted # None /\ pc # "main") => sendCount = 0

\* C4 amended: in the cycle that follows a successful publish in the same
\* process, the feeds unchanged, the url published before is neither in the
\* filter output nor selected; the cycle publishes nothing exactly when
\* every url the feeds list was in the Posted-URL Set when it began.
C4_SecondRunNeverRepublishes ==
    (prevPosted # None /\ pc # "main") =>
        /\ prevPosted[1] \notin Urls(new_items)
        /\ item # None => item[1].url # prevPosted[1]
        /\ (pc \in Done /\ ~feedChanged) =>
              (sendCount = 0 <=> Listed \subseteq posted0)

\* the second cycle has published another url of the unchanged feeds
C4_Witness ==
    /\ prevPosted # None
    /\ pc = "done_posted"
    /\ prevPosted[1] \in Listed
    /\ item[1].url # prevPosted[1]

----------------------------------------------------------------------------
(* C5 *)

\* C5: the list fetch_news returns holds, in feed-then-entry order, one item
\* for each served entry that has a non-empty url not in the Posted-URL Set
\* (repeats included), carrying that entry's url and title, and nothing else.
C5_FilterCorrect ==
    Filtered =>
        /\ Len(new_items) = Cardinality(Fresh(posted0))
        /\ \A n \in 1..Len(new_items) :
              LET entry == Served[Nth(Fresh(posted0), n)]
              IN  /\ new_items[n].url = entry.link[1]
                  /\ new_items[n].title =
                        (IF entry.title = None THEN NoTitle ELSE entry.title[1])

\* two entries were served, the first already posted, the second returned
C5_Witness ==
    /\ Filtered
    /\ Len(Served) = 2
    /\ Served[1].link # None
    /\ Served[1].link[1] \in posted0
    /\ Len(new_items) = 1
    /\ new_items[1].url = Served[2].link[1]

----------------------------------------------------------------------------
(* C6 *)

\* no piece of RSS_FEEDS names a feed (the variable unset or empty)
NoFeedConfigured == \A i \in 1..Len(RSS_FEEDS) : RSS_FEEDS[i] = <<>>

\* C6: once the configuration has been read with the bot credential, the
\* chat id or every feed endpoint missing, the process has stopped with the
\* start-up error, the Posted-URL file is as it was found, and no cycle ran.
C6_MissingConfigIsFatal ==
    (pc # "config" /\ (~Truthy(BOT_TOKEN) \/ ~Truthy(CHAT_ID) \/ NoFeedConfigured))
        => (pc = "config_error" /\ file = file0 /\ cycles = 0)

----------------------------------------------------------------------------
(* C7 *)

\* C7: in local mode every step out of an ended cycle (posted, nothing new,
\* failure logged) leads to the next call of main(), which starts fetching,
\* and such a step is always possible; in any other mode the step out of the
\* ended cycle ends the process, which has run exactly one cycle and runs no
\* other.
C7_ModeBehaviour ==
    /\ [](pc \in Done => IF runMode = "local" THEN ENABLED Sleep ELSE ENABLED Exit)
    /\ [](pc = "main" => ENABLED BeginCycle)
    /\ [](pc = "exited" => runMode # "local" /\ cycles = 1)
    /\ [][ /\ (pc \in Done /\ pc' # pc) =>
                 IF runMode = "local" THEN pc' = "main" ELSE pc' = "exited"
           /\ pc = "main" => pc' = "fetching"
           /\ pc = "exited" => pc' = "exited" ]_vars

\* local mode: fetching again after a cycle that ended with a logged failure
C7_Witness ==
    /\ runMode = "local"
    /\ pc = "fetching"
    /\ cycles >= 2
    /\ prevFailed # None

----------------------------------------------------------------------------
(* C8 *)

\* the configured feeds that are not blank, before position k
NamedBefore(k) == { i \in 1..(k - 1) : Strip(RSS_FEEDS[i]) # <<>> }

\* C8: once a retrieval has raised, in either mode, the process has
\* terminated and takes no further step: the feeds after the failing one
\* were not read, nothing was selected or published in the cycle, and the
\* set and the file are as they were when the cycle began.
C8_RetrievalErrorTerminates ==
    /\ [](raised =>
            /\ pc = "crashed"
            /\ Len(fetched) = Cardinality(NamedBefore(feedIdx))
            /\ feedIdx <= Len(RSS_FEEDS)
            /\ item = None
            /\ sendCount = 0
            /\ posted_urls = posted0
            /\ file = file0)
    /\ [][raised => UNCHANGED vars]_vars

\* local mode, a later cycle: the first feed was read, the second raised
C8_Witness ==
    /\ raised
    /\ runMode = "local"
    /\ cycles >= 2
    /\ feedIdx = 2
    /\ Len(fetched) = 1

----------------------------------------------------------------------------
(* C9 *)

\* C9: after the load, a step changes the set or the file only as the
\* recording step after a successful publish, which inserts the published
\* url, new to the set, and appends it as one line; the file only ever grows
\* at its end.
C9_StoreFrame ==
    [][ (pc # "load" /\ (posted_urls' # posted_urls \/ file' # file)) =>
            /\ pc = "recording"
            /\ sendCount = 1
            /\ item[1].url \notin posted_urls
            /\ posted_urls' = posted_urls \cup {item[1].url}
            /\ file' = [file EXCEPT !.lines = Append(@, item[1].url)] ]_vars

----------------------------------------------------------------------------
(* C10 *)

\* every listed url is in the set and the cycles end in "nothing new"
Quiet ==
    /\ Listed \subseteq posted_urls
    /\ pc \in {"main", "fetching", "done_nothing"}

\* C10 as stated: a local-mode process whose feeds keep their content
\* eventually stays in cycles that publish nothing, every listed url in the
\* set and published exactly once.
C10_EachListedPublishedOnce ==
    (pc = "main" /\ runMode = "local") ~>
        [](Quiet /\ \A u \in Listed : published[u] = 1)

\* C10 amended: a local-mode process whose feeds keep their content
\* eventually stays in cycles that publish nothing, every listed url in the
\* set, published exactly once if it was not in the set as loaded at
\* start-up and never if it was.
C10_Converges ==
    (pc = "main" /\ runMode = "local") ~>
        [](Quiet /\ \A u \in Listed : published[u] = (IF u \in loaded THEN 0 ELSE 1))

\* both urls are listed, each was published once, the cycle found nothing new
C10_Witness ==
    /\ runMode = "local"
    /\ pc = "done_nothing"
    /\ Listed = AllUrls
    /\ \A u \in AllUrls : published[u] = 1

====
